---------------------------- MODULE Spec2Model ----------------------------
(* Forward-curve calibration script (src/Program.py): the Convert utility,  *)
(* the VanillaSwap class, ObjectiveFunction and the calibration driver.     *)
(*                                                                          *)
(* Conventions of the model                                                 *)
(*   - a Python str is a sequence of one-character strings;                 *)
(*   - a date is the number of days since 1970-01-01;                       *)
(*   - a rate is an integer number of 1e-7 (0.02795 is 279500);             *)
(*   - None is the string "None"; a call that may raise yields a record     *)
(*     [exc, val]: the exception class raised ("" when none) and the value. *)
EXTENDS Integers, Sequences, FiniteSets, TLC

None == "None"

\* the result of a call that may raise: the value returned, or the exception
\* class raised (exc = "" when none) with a placeholder value
Ok(v) == [exc |-> "", val |-> v]

Raise(e, placeholder) == [exc |-> e, val |-> placeholder]

\* ------------------------------------------------------------------ str

UpperChar(c) ==
  CASE c = "a" -> "A" [] c = "b" -> "B" [] c = "c" -> "C" [] c = "d" -> "D"
    [] c = "e" -> "E" [] c = "f" -> "F" [] c = "g" -> "G" [] c = "h" -> "H"
    [] c = "i" -> "I" [] c = "j" -> "J" [] c = "k" -> "K" [] c = "l" -> "L"
    [] c = "m" -> "M" [] c = "n" -> "N" [] c = "o" -> "O" [] c = "p" -> "P"
    [] c = "q" -> "Q" [] c = "r" -> "R" [] c = "s" -> "S" [] c = "t" -> "T"
    [] c = "u" -> "U" [] c = "v" -> "V" [] c = "w" -> "W" [] c = "x" -> "X"
    [] c = "y" -> "Y" [] c = "z" -> "Z" [] OTHER -> c

\* str.upper()
Upper(s) == [i \in DOMAIN s |-> UpperChar(s[i])]

Digits == <<"0", "1", "2", "3", "4", "5", "6", "7", "8", "9">>

IsDigit(c) == \E i \in 1..10 : Digits[i] = c

DigitValue(c) == (CHOOSE i \in 1..10 : Digits[i] = c) - 1

\* int(s) of a string of decimal digits; anything else raises ValueError
RECURSIVE IntOfDigits(_)
IntOfDigits(s) ==
  IF s = <<>> THEN 0
  ELSE 10 * IntOfDigits(SubSeq(s, 1, Len(s) - 1)) + DigitValue(s[Len(s)])

PyInt(s) ==
  IF s # <<>> /\ \A i \in DOMAIN s : IsDigit(s[i])
  THEN Ok(IntOfDigits(s)) ELSE Raise("ValueError", 0)

\* the characters of the class [\w'] met in the model's strings
IsWordChar(c) == c \notin {"-", ".", " ", "/"}

\* re.findall(r"[\w']+", s): the maximal runs of word characters
RECURSIVE FindAllWords(_, _, _)
FindAllWords(s, i, cur) ==
  IF i > Len(s) THEN (IF cur = <<>> THEN <<>> ELSE <<cur>>)
  ELSE IF IsWordChar(s[i]) THEN FindAllWords(s, i + 1, Append(cur, s[i]))
  ELSE (IF cur = <<>> THEN <<>> ELSE <<cur>>) \o FindAllWords(s, i + 1, <<>>)

\* str.split(sep): the pieces between separators, empty pieces kept
RECURSIVE SplitAt(_, _, _, _)
SplitAt(s, sep, i, cur) ==
  IF i > Len(s) THEN <<cur>>
  ELSE IF s[i] = sep THEN <<cur>> \o SplitAt(s, sep, i + 1, <<>>)
  ELSE SplitAt(s, sep, i + 1, Append(cur, s[i]))

Split(s, sep) == SplitAt(s, sep, 1, <<>>)

\* ----------------------------------------------------------------- Date

\* ql.Date(d, m, y) as a day number (days since 1970-01-01)
Date(d, m, y) ==
  LET yy  == IF m <= 2 THEN y - 1 ELSE y
      era == yy \div 400
      yoe == yy - era * 400
      mp  == IF m > 2 THEN m - 3 ELSE m + 9
      doy == (153 * mp + 2) \div 5 + d - 1
      doe == yoe * 365 + yoe \div 4 - yoe \div 100 + doy
  IN  era * 146097 + doe - 719468

\* [y, m, d] of a day number
Civil(n) ==
  LET z   == n + 719468
      era == z \div 146097
      doe == z - era * 146097
      yoe == (doe - doe \div 1460 + doe \div 36524 - doe \div 146096) \div 365
      doy == doe - (365 * yoe + yoe \div 4 - yoe \div 100)
      mp  == (5 * doy + 2) \div 153
      dd  == doy - (153 * mp + 2) \div 5 + 1
      mm  == IF mp < 10 THEN mp + 3 ELSE mp - 9
  IN  [y |-> yoe + era * 400 + (IF mm <= 2 THEN 1 ELSE 0), m |-> mm, d |-> dd]

\* 0 = Sunday ... 6 = Saturday (1970-01-01 was a Thursday)
Weekday(n) == (n + 4) % 7

IsWeekend(n) == Weekday(n) \in {0, 6}

IsLeap(y) == (y % 4 = 0 /\ y % 100 # 0) \/ y % 400 = 0

MonthLength(m, y) ==
  IF m = 2 THEN (IF IsLeap(y) THEN 29 ELSE 28)
  ELSE IF m \in {4, 6, 9, 11} THEN 30 ELSE 31

\* Date + k months (k may be negative): the day is cut to the month's length
AddMonths(n0, k) ==
  LET to(c, y2, m2) ==
        Date(IF c.d > MonthLength(m2, y2) THEN MonthLength(m2, y2) ELSE c.d, m2, y2)
      at(c, t) == to(c, t \div 12, (t % 12) + 1)
      from(c)  == at(c, c.y * 12 + (c.m - 1) + k)
  IN  from(Civil(n0))

\* a ql.Period as [n, units]; Date + k * Period
AddPeriod(n0, p, k) ==
  IF p.units \in {"Months", "Years"}
  THEN AddMonths(n0, k * p.n * (IF p.units = "Years" THEN 12 ELSE 1))
  ELSE n0 + k * p.n * (IF p.units = "Weeks" THEN 7 ELSE 1)

\* Easter Sunday of year y (Gregorian computus) as a day number
EasterSunday(y) ==
  LET a == y % 19
      b == y \div 100
      c == y % 100
      d == b \div 4
      e == b % 4
      f == (b + 8) \div 25
      g == (b - f + 1) \div 3
      h == (19 * a + b - d - g + 15) % 30
      i == c \div 4
      k == c % 4
      l == (32 + 2 * e + 2 * i - h - k) % 7
      m == (a + 11 * h + 22 * l) \div 451
      mo == (h + l - 7 * m + 114) \div 31
      da == ((h + l - 7 * m + 114) % 31) + 1
  IN  Date(da, mo, y)

\* ql.TARGET().isBusinessDay(date)
TargetIsBusinessDay(n) ==
  LET rule(c, em) ==
        ~ ( IsWeekend(n)
         \/ (c.d = 1 /\ c.m = 1)
         \/ (n = em - 3 /\ c.y >= 2000)
         \/ (n = em /\ c.y >= 2000)
         \/ (c.d = 1 /\ c.m = 5 /\ c.y >= 2000)
         \/ (c.d = 25 /\ c.m = 12)
         \/ (c.d = 26 /\ c.m = 12 /\ c.y >= 2000)
         \/ (c.d = 31 /\ c.m = 12 /\ c.y \in {1998, 1999, 2001}) )
      on(c) == rule(c, EasterSunday(c.y) + 1)
  IN  on(Civil(n))

\* calendar.isBusinessDay(date); the null calendar has no holidays, and of
\* the calendars no run here builds a schedule on only the weekends are kept
IsBusinessDay(cal, n) ==
  CASE cal = "TARGET"       -> TargetIsBusinessDay(n)
    [] cal = "NullCalendar" -> TRUE
    [] OTHER                -> ~IsWeekend(n)

RECURSIVE RollForward(_, _)
RollForward(cal, n) == IF IsBusinessDay(cal, n) THEN n ELSE RollForward(cal, n + 1)

RECURSIVE RollBackward(_, _)
RollBackward(cal, n) == IF IsBusinessDay(cal, n) THEN n ELSE RollBackward(cal, n - 1)

SameMonth(a, b) ==
  LET same(month(_)) == month(a) = month(b)
  IN  same(LAMBDA d : Civil(d).m)

\* calendar.adjust(date, convention)
Adjust(cal, n, conv) ==
  LET pick(following, preceding, sameMonth(_)) ==
        CASE conv = "Unadjusted" -> n
          [] conv = "Following"  -> following
          [] conv = "Preceding"  -> preceding
          [] conv = "ModifiedFollowing" ->
               IF sameMonth(following) THEN following ELSE preceding
          [] conv = "ModifiedPreceding" ->
               IF sameMonth(preceding) THEN preceding ELSE following
  IN  pick(RollForward(cal, n), RollBackward(cal, n), LAMBDA d : SameMonth(d, n))

\* calendar.advance(date, n business days)
RECURSIVE AdvanceDays(_, _, _)
AdvanceDays(cal, n, k) ==
  IF k = 0 THEN n ELSE AdvanceDays(cal, RollForward(cal, n + 1), k - 1)

\* ------------------------------------------------------------- Schedule

\* the null calendar's advance(seed, k * tenor): plain date arithmetic
NullAdvance(seed, tenor, k) == AddPeriod(seed, tenor, k)

\* an upper bound on the number of whole tenors between two dates
MaxPeriods(from, to, tenor) ==
  LET shortest == CASE tenor.units = "Days"   -> tenor.n
                    [] tenor.units = "Weeks"  -> 7 * tenor.n
                    [] tenor.units = "Months" -> 28 * tenor.n
                    [] tenor.units = "Years"  -> 365 * tenor.n
  IN  (to - from) \div shortest + 1

\* DateGeneration.Backward: the loop steps back from the termination date,
\* temp = seed - periods * tenor, until temp < effectiveDate; a temp whose
\* adjusted date equals the adjusted front is skipped (the adjusted front is
\* always the adjusted previous temp, kept or skipped); the effective date
\* is put in front unless it adjusts to the front's date.
BackwardDates(effectiveDate, terminationDate, tenor, cal, conv) ==
  LET front(acc, adj(_)) ==
        IF adj(acc[1]) # adj(effectiveDate) THEN <<effectiveDate>> \o acc ELSE acc
      dates(steps) == [i \in DOMAIN steps |-> steps[i].d]
      loop(n, raw(_), adj(_)) ==
        front(dates(SelectSeq([i \in 1..(n + 1) |-> [p |-> n + 1 - i, d |-> raw(n + 1 - i)]],
                              LAMBDA e : e.p = 0 \/ adj(e.d) # adj(raw(e.p - 1)))),
              adj)
      count(raw(_)) ==
        Cardinality({p \in 1..MaxPeriods(effectiveDate, terminationDate, tenor) :
                       raw(p) >= effectiveDate})
      run(raw(_), adj(_)) == loop(count(raw), raw, adj)
  IN  run(LAMBDA p : NullAdvance(terminationDate, tenor, -p),
          LAMBDA d : Adjust(cal, d, conv))

\* DateGeneration.Forward: the loop steps forward from the effective date
\* until temp > terminationDate; the termination date is appended unless it
\* adjusts to the back's date.
ForwardDates(effectiveDate, terminationDate, tenor, cal, conv, termConv) ==
  LET back(acc, adj(_, _)) ==
        IF adj(acc[Len(acc)], termConv) # adj(terminationDate, termConv)
        THEN Append(acc, terminationDate) ELSE acc
      dates(steps) == [i \in DOMAIN steps |-> steps[i].d]
      loop(n, raw(_), adj(_, _)) ==
        back(dates(SelectSeq([i \in 1..(n + 1) |-> [p |-> i - 1, d |-> raw(i - 1)]],
                             LAMBDA e : e.p = 0 \/ adj(e.d, conv) # adj(raw(e.p - 1), conv))),
             adj)
      count(raw(_)) ==
        Cardinality({p \in 1..MaxPeriods(effectiveDate, terminationDate, tenor) :
                       raw(p) <= terminationDate})
      run(raw(_), adj(_, _)) == loop(count(raw), raw, adj)
  IN  run(LAMBDA p : NullAdvance(effectiveDate, tenor, p),
          LAMBDA d, c : Adjust(cal, d, c))

\* a variant of the adjustment that leaves the last date as requested
AdjustDatesButLast(raw, cal, conv, termConv) ==
  [i \in DOMAIN raw |->
     IF i = Len(raw) /\ Len(raw) > 1 THEN raw[i] ELSE Adjust(cal, raw[i], conv)]

\* the adjustment of the raw dates: every date but the last by the convention,
\* the last by the termination date convention
AdjustDates(raw, cal, conv, termConv) ==
  [i \in DOMAIN raw |->
     Adjust(cal, raw[i], IF i = Len(raw) /\ Len(raw) > 1 THEN termConv ELSE conv)]

\* the final safety checks: a next-to-last date on or after the end, and a
\* second date on or before the front, are removed
SafetyChecks(ds) ==
  LET a == IF Len(ds) >= 2 /\ ds[Len(ds) - 1] >= ds[Len(ds)]
           THEN SubSeq(ds, 1, Len(ds) - 2) \o <<ds[Len(ds)]>> ELSE ds
  IN  IF Len(a) >= 2 /\ a[2] <= a[1]
      THEN <<a[1]>> \o SubSeq(a, 3, Len(a)) ELSE a

\* ql.Schedule(effectiveDate, terminationDate, tenor, calendar, convention,
\* terminationDateConvention, rule, endOfMonth), for endOfMonth = False (the
\* only value the program passes): the list of dates, or the exception.
Schedule(effectiveDate, terminationDate, tenor, cal, conv, termConv, rule, endOfMonth) ==
  LET result(ds) == IF Len(ds) > 1 THEN Ok(ds) ELSE Raise("RuntimeError", <<>>)
      checked(raw) == result(SafetyChecks(AdjustDates(raw, cal, conv, termConv)))
  IN  IF None \in {cal, conv, termConv, rule}
        THEN Raise("TypeError", <<>>)
      ELSE IF effectiveDate >= terminationDate
        THEN Raise("RuntimeError", <<>>)
      ELSE checked(IF rule = "Backward"
                   THEN BackwardDates(effectiveDate, terminationDate, tenor, cal, conv)
                   ELSE ForwardDates(effectiveDate, terminationDate, tenor, cal, conv,
                                     termConv))

\* -------------------------------------------------------------- Convert

\* Convert.to_date(s): 'yyyy-mm-dd' to a date. int(arr[2]) is evaluated first,
\* then monthDictionary[arr[1]], then int(arr[0]), then ql.Date checks the day.
monthDictionary ==
  [k \in {<<"0", "1">>, <<"0", "2">>, <<"0", "3">>, <<"0", "4">>, <<"0", "5">>,
          <<"0", "6">>, <<"0", "7">>, <<"0", "8">>, <<"0", "9">>, <<"1", "0">>,
          <<"1", "1">>, <<"1", "2">>} |-> IntOfDigits(k)]

to_date(s) ==
  LET date(d, m, y) ==
        IF y < 1901 \/ y > 2199 \/ d < 1 \/ d > MonthLength(m, y)
        THEN Raise("RuntimeError", 0)
        ELSE Ok(Date(d, m, y))
      parse(arr) ==
        IF Len(arr) < 3 THEN Raise("IndexError", 0)
        ELSE IF PyInt(arr[3]).exc # "" THEN Raise("ValueError", 0)
        ELSE IF arr[2] \notin DOMAIN monthDictionary THEN Raise("KeyError", 0)
        ELSE IF PyInt(arr[1]).exc # "" THEN Raise("ValueError", 0)
        ELSE date(PyInt(arr[3]).val, monthDictionary[arr[2]], PyInt(arr[1]).val)
  IN  parse(FindAllWords(s, 1, <<>>))

\* Convert.to_businessDayConvention(s): falls off the end (None) on any other name
to_businessDayConvention(s) ==
  IF Upper(s) = <<"F", "O", "L", "L", "O", "W", "I", "N", "G">> THEN "Following"
  ELSE IF Upper(s) = <<"M", "O", "D", "I", "F", "I", "E", "D", "F", "O", "L", "L", "O", "W", "I", "N", "G">> THEN "ModifiedFollowing"
  ELSE IF Upper(s) = <<"P", "R", "E", "C", "E", "D", "I", "N", "G">> THEN "Preceding"
  ELSE IF Upper(s) = <<"M", "O", "D", "I", "F", "I", "E", "D", "P", "R", "E", "C", "E", "D", "I", "N", "G">> THEN "ModifiedPreceding"
  ELSE IF Upper(s) = <<"U", "N", "A", "D", "J", "U", "S", "T", "E", "D">> THEN "Unadjusted"
  ELSE None

\* Convert.to_calendar(s)
to_calendar(s) ==
  IF Upper(s) = <<"T", "A", "R", "G", "E", "T">> THEN "TARGET"
  ELSE IF Upper(s) = <<"U", "N", "I", "T", "E", "D", "S", "T", "A", "T", "E", "S">> THEN "UnitedStates"
  ELSE IF Upper(s) = <<"U", "N", "I", "T", "E", "D", "K", "I", "N", "G", "D", "O", "M">> THEN "UnitedKingdom"
  ELSE None

\* Convert.to_swapType(s)
to_swapType(s) ==
  IF Upper(s) = <<"P", "A", "Y", "E", "R">> THEN "Payer"
  ELSE IF Upper(s) = <<"R", "E", "C", "E", "I", "V", "E", "R">> THEN "Receiver"
  ELSE None

\* Convert.to_frequency(s)
to_frequency(s) ==
  IF Upper(s) = <<"D", "A", "I", "L", "Y">> THEN "Daily"
  ELSE IF Upper(s) = <<"W", "E", "E", "K", "L", "Y">> THEN "Weekly"
  ELSE IF Upper(s) = <<"M", "O", "N", "T", "H", "L", "Y">> THEN "Monthly"
  ELSE IF Upper(s) = <<"Q", "U", "A", "R", "T", "E", "R", "L", "Y">> THEN "Quarterly"
  ELSE IF Upper(s) = <<"S", "E", "M", "I", "A", "N", "N", "U", "A", "L">> THEN "Semiannual"
  ELSE IF Upper(s) = <<"A", "N", "N", "U", "A", "L">> THEN "Annual"
  ELSE None

\* Convert.to_dateGenerationRule(s)
to_dateGenerationRule(s) ==
  IF Upper(s) = <<"B", "A", "C", "K", "W", "A", "R", "D">> THEN "Backward"
  ELSE IF Upper(s) = <<"F", "O", "R", "W", "A", "R", "D">> THEN "Forward"
  ELSE None

\* Convert.to_dayCounter(s)
to_dayCounter(s) ==
  IF Upper(s) = <<"A", "C", "T", "U", "A", "L", "3", "6", "0">> THEN "Actual360"
  ELSE IF Upper(s) = <<"A", "C", "T", "U", "A", "L", "3", "6", "5", "F", "I", "X", "E", "D">> THEN "Actual365Fixed"
  ELSE IF Upper(s) = <<"A", "C", "T", "U", "A", "L", "A", "C", "T", "U", "A", "L">> THEN "ActualActual"
  ELSE IF Upper(s) = <<"A", "C", "T", "U", "A", "L", "3", "6", "5", "N", "O", "L", "E", "A", "P">> THEN "Actual365NoLeap"
  ELSE IF Upper(s) = <<"B", "U", "S", "I", "N", "E", "S", "S", "2", "5", "2">> THEN "Business252"
  ELSE IF Upper(s) = <<"O", "N", "E", "D", "A", "Y", "C", "O", "U", "N", "T", "E", "R">> THEN "OneDayCounter"
  ELSE IF Upper(s) = <<"S", "I", "M", "P", "L", "E", "D", "A", "Y", "C", "O", "U", "N", "T", "E", "R">> THEN "SimpleDayCounter"
  ELSE IF Upper(s) = <<"T", "H", "I", "R", "T", "Y", "3", "6", "0">> THEN "Thirty360"
  ELSE None

\* an object reference that is None, or an attribute not yet set
NoneObj == [kind |-> "None"]

\* ql.Period(s) of a string such as '3M': digits and one unit letter
PeriodOfString(s) ==
  LET n == SubSeq(s, 1, Len(s) - 1)
      u == IF s = <<>> THEN "" ELSE UpperChar(s[Len(s)])
  IN  IF Len(s) < 2 \/ PyInt(n).exc # "" \/ u \notin {"D", "W", "M", "Y"}
      THEN Raise("RuntimeError", [n |-> 0, units |-> "Days"])
      ELSE Ok([n |-> PyInt(n).val,
               units |-> CASE u = "D" -> "Days" [] u = "W" -> "Weeks"
                           [] u = "M" -> "Months" [] u = "Y" -> "Years"])

\* ql.Period(frequency); None is no Frequency
PeriodOfFrequency(f) ==
  CASE f = "Annual"     -> Ok([n |-> 1, units |-> "Years"])
    [] f = "Semiannual" -> Ok([n |-> 6, units |-> "Months"])
    [] f = "Quarterly"  -> Ok([n |-> 3, units |-> "Months"])
    [] f = "Monthly"    -> Ok([n |-> 1, units |-> "Months"])
    [] f = "Weekly"     -> Ok([n |-> 1, units |-> "Weeks"])
    [] f = "Daily"      -> Ok([n |-> 1, units |-> "Days"])
    [] OTHER            -> Raise("TypeError", [n |-> 0, units |-> "Days"])

\* the day counter an index family quotes its rates in
IndexDayCounter(family) ==
  IF family = "GBPLibor" THEN "Actual365Fixed" ELSE "Actual360"

\* an ibor index object (ql.USDLibor, ql.Euribor, ...): its family, its tenor,
\* its day counter and the forwarding term structure it is linked to
\* (NoneObj: an empty handle)
IborIndex(family, tenor, h) ==
  [kind |-> "IborIndex", family |-> family, tenor |-> tenor,
   dayCounter |-> IndexDayCounter(family), curve |-> h]

\* Convert.to_iborIndex(s): 'USDLibor.3M'. s[1] is read only once the family
\* has matched; an unknown family falls off the end.
to_iborIndex(s0) ==
  LET index(s, family) ==
        IF family = None THEN Ok(NoneObj)
        ELSE IF Len(s) < 2 THEN Raise("IndexError", NoneObj)
        ELSE IF PeriodOfString(s[2]).exc # "" THEN Raise("RuntimeError", NoneObj)
        ELSE Ok(IborIndex(family, PeriodOfString(s[2]).val, NoneObj))
      match(s) ==
        index(s, IF Upper(s[1]) = <<"U", "S", "D", "L", "I", "B", "O", "R">> THEN "USDLibor"
                 ELSE IF Upper(s[1]) = <<"E", "U", "R", "I", "B", "O", "R">> THEN "Euribor"
                 ELSE None)
  IN  match(Split(s0, "."))

\* ---------------------------------------------------------- VanillaSwap

\* the first exception of a sequence of outcomes ("" when none raised)
RECURSIVE FirstExc(_)
FirstExc(excs) ==
  IF excs = <<>> THEN ""
  ELSE IF excs[1] # "" THEN excs[1] ELSE FirstExc(Tail(excs))

\* VanillaSwap.__init__(self, ID, swapType, ...): the member data after the
\* conversions and the two schedules, or the first exception raised. A name
\* that a conversion does not know arrives here as None and is stored as is.
VanillaSwapInit(a) ==
  LET finish(members, fixedLegSchedule, floatingLegSchedule) ==
        IF fixedLegSchedule.exc # "" THEN Raise(fixedLegSchedule.exc, NoneObj)
        ELSE IF floatingLegSchedule.exc # "" THEN Raise(floatingLegSchedule.exc, NoneObj)
        ELSE Ok([f \in DOMAIN members \cup {"fixedLegSchedule", "floatingLegSchedule",
                                             "instrument"} |->
                   CASE f = "fixedLegSchedule"    -> fixedLegSchedule.val
                     [] f = "floatingLegSchedule" -> floatingLegSchedule.val
                     [] f = "instrument"          -> NoneObj
                     [] OTHER                     -> members[f]])
      schedules(members) ==
        finish(members,
               Schedule(members.startDate, members.maturityDate,
                        members.fixedLegFrequency, members.fixedLegCalendar,
                        members.fixedLegConvention, members.fixedLegConvention,
                        members.fixedLegDateGenerationRule, members.fixedLegEndOfMonth),
               Schedule(members.startDate, members.maturityDate,
                        members.floatingLegFrequency, members.floatingLegCalendar,
                        members.floatingLegConvention, members.floatingLegConvention,
                        members.floatingLegDateGenerationRule,
                        members.floatingLegEndOfMonth))
      convert(startDate, maturityDate, fixedFreq, floatingFreq, index) ==
        IF FirstExc(<<startDate.exc, maturityDate.exc, fixedFreq.exc,
                      floatingFreq.exc, index.exc>>) # ""
        THEN Raise(FirstExc(<<startDate.exc, maturityDate.exc, fixedFreq.exc,
                              floatingFreq.exc, index.exc>>), NoneObj)
        ELSE schedules(
          [ kind                          |-> "VanillaSwap",
            ID                            |-> a.ID,
            swapType                      |-> to_swapType(a.swapType),
            nominal                       |-> a.nominal,
            startDate                     |-> startDate.val,
            maturityDate                  |-> maturityDate.val,
            fixedLegFrequency             |-> fixedFreq.val,
            fixedLegCalendar              |-> to_calendar(a.fixedLegCalendar),
            fixedLegConvention            |-> to_businessDayConvention(a.fixedLegConvention),
            fixedLegDateGenerationRule    |-> to_dateGenerationRule(a.fixedLegDateGenerationRule),
            fixedLegRate                  |-> a.fixedLegRate,
            fixedLegDayCount              |-> to_dayCounter(a.fixedLegDayCount),
            fixedLegEndOfMonth            |-> a.fixedLegEndOfMonth,
            floatingLegFrequency          |-> floatingFreq.val,
            floatingLegCalendar           |-> to_calendar(a.floatingLegCalendar),
            floatingLegConvention         |-> to_businessDayConvention(a.floatingLegConvention),
            floatingLegDateGenerationRule |-> to_dateGenerationRule(a.floatingLegDateGenerationRule),
            floatingLegSpread             |-> a.floatingLegSpread,
            floatingLegDayCount           |-> to_dayCounter(a.floatingLegDayCount),
            floatingLegEndOfMonth         |-> a.floatingLegEndOfMonth,
            floatingLegIborIndex          |-> index.val ])
  IN  convert(to_date(a.startDate), to_date(a.maturityDate),
              PeriodOfFrequency(to_frequency(a.fixedLegFrequency)),
              PeriodOfFrequency(to_frequency(a.floatingLegFrequency)),
              to_iborIndex(a.floatingLegIborIndex))

\* np.concatenate([a, b])
Concatenate(a, b) == a \o b

StrictlyIncreasing(ds) == \A i \in 1..(Len(ds) - 1) : ds[i] < ds[i + 1]

\* ql.YieldTermStructureHandle(ql.ForwardCurve(dates, forwards, dayCounter,
\* calendar)): the curve's knots and conventions. The constructor requires a
\* day counter and a calendar, as many rates as dates, and increasing dates.
ForwardCurve(ds, forwards, dayCounter, calendar) ==
  LET placeholder == NoneObj
  IN  IF dayCounter = None \/ calendar = None THEN Raise("TypeError", placeholder)
      ELSE IF Len(ds) # Len(forwards) \/ Len(ds) < 2 \/ ~StrictlyIncreasing(ds)
        THEN Raise("RuntimeError", placeholder)
      ELSE Ok([kind |-> "ForwardCurve", dates |-> ds, forwards |-> forwards,
               dayCounter |-> dayCounter, calendar |-> calendar])

\* index.clone(h): the same index linked to the forwarding curve h
Clone(index, h) == [index EXCEPT !.curve = h]

\* ql.VanillaSwap(type, nominal, fixedSchedule, fixedRate, fixedDayCount,
\* floatSchedule, index, spread, floatingDayCount) paired with
\* ql.DiscountingSwapEngine(curve); a None argument is a TypeError
Instrument(self, curve) ==
  IF None \in {self.swapType, self.fixedLegDayCount, self.floatingLegDayCount}
  THEN Raise("TypeError", NoneObj)
  ELSE Ok([ kind                |-> "ql.VanillaSwap",
            swapType            |-> self.swapType,
            nominal             |-> self.nominal,
            fixedLegSchedule    |-> self.fixedLegSchedule,
            fixedLegRate        |-> self.fixedLegRate,
            fixedLegDayCount    |-> self.fixedLegDayCount,
            floatingLegSchedule |-> self.floatingLegSchedule,
            floatingLegIborIndex |-> self.floatingLegIborIndex,
            floatingLegSpread   |-> self.floatingLegSpread,
            floatingLegDayCount |-> self.floatingLegDayCount,
            engine              |-> curve ])

\* instrument.NPV(): the value QuantLib computes from the instrument's terms,
\* its index (conventions and forwarding curve) and its engine's curve; the
\* model keeps the value as what it is computed from (Amount gives its size).
\* A schedule reaching past the curve's last date raises.
InstrumentNPV(instrument) ==
  LET last(ds) == ds[Len(ds)]
      covered(c) == /\ last(instrument.floatingLegSchedule) <= last(c.dates)
                    /\ last(instrument.fixedLegSchedule) <= last(c.dates)
  IN  IF covered(instrument.engine) /\ covered(instrument.floatingLegIborIndex.curve)
      THEN Ok([npvOf |-> instrument])
      ELSE Raise("RuntimeError", [npvOf |-> instrument])

\* the outcome of a valuation call: the exception ("" when none), the value
\* returned and the swap object as the call leaves it
Outcome(exc, ret, self) == [exc |-> exc, ret |-> ret, self |-> self]

NoValue == [npvOf |-> NoneObj]

\* the tail shared by both valuation methods, from the assignment of
\* self.floatingLegIborIndex on
Revalue(self, index, curve) ==
  LET self1      == [self EXCEPT !.floatingLegIborIndex = index]
      instrument == Instrument(self1, curve)
      self2      == [self1 EXCEPT !.instrument = instrument.val]
      npv        == InstrumentNPV(instrument.val)
  IN  IF instrument.exc # "" THEN Outcome(instrument.exc, NoValue, self1)
      ELSE Outcome(npv.exc, IF npv.exc = "" THEN npv.val ELSE NoValue, self2)

\* VanillaSwap.NPV_calibration(self, x, args): args[1] is the list of dates,
\* args[2] the list of market rates (Python's args[0] and args[1])
NPV_calibration(self, x, args) ==
  LET x1    == Concatenate(args[2], x)
      curve == ForwardCurve(args[1], x1, self.floatingLegDayCount,
                            self.floatingLegCalendar)
  IN  IF curve.exc # "" THEN Outcome(curve.exc, NoValue, self)
      ELSE IF self.floatingLegIborIndex = NoneObj
        THEN Outcome("AttributeError", NoValue, self)
      ELSE Revalue(self, Clone(self.floatingLegIborIndex, curve.val), curve.val)

\* VanillaSwap.NPV(self, yieldTermStructureHandle, floatingLegIborIndex)
NPV(self, yieldTermStructureHandle, floatingLegIborIndex) ==
  Revalue(self, Clone(floatingLegIborIndex, yieldTermStructureHandle),
          yieldTermStructureHandle)

\* ----------------------------------------------------- size of a value

Abs(n) == IF n < 0 THEN -n ELSE n

Min(a, b) == IF a < b THEN a ELSE b

Max(a, b) == IF a > b THEN a ELSE b

\* the days in a year of a day counter (the two the valuation meets)
Basis(dayCounter) ==
  CASE dayCounter = "Actual360"      -> 360
    [] dayCounter = "Actual365Fixed" -> 365

\* term[lo] + ... + term[hi]
RECURSIVE SumOver(_, _, _)
SumOver(term, lo, hi) ==
  IF lo > hi THEN 0
  ELSE IF lo = hi THEN term[lo]
  ELSE LET mid == (lo + hi) \div 2
       IN  SumOver(term, lo, mid) + SumOver(term, mid + 1, hi)

\* the integral of the curve's forward rate over [from, to], in 1e-7 years:
\* the rate of knot i holds on (dates[i-1], dates[i]]
ForwardIntegral(curve, from, to) ==
  LET days(i) == Max(0, Min(curve.dates[i], to) - Max(curve.dates[i - 1], from))
      term == [i \in 2..Len(curve.dates) |->
                 (curve.forwards[i] * days(i)) \div Basis(curve.dayCounter)]
  IN  SumOver(term, 2, Len(curve.dates))

\* rate * (year fraction of each period of the schedule), summed
AccrualSum(schedule, rate, dayCounter) ==
  LET term == [i \in 2..Len(schedule) |->
                 (rate * (schedule[i] - schedule[i - 1])) \div Basis(dayCounter)]
  IN  SumOver(term, 2, Len(schedule))

\* a * num / den, rounded down
Rescale(a, num, den) == (a \div den) * num + ((a % den) * num) \div den

\* The size of a value, in tenths of a currency unit for a nominal in whole
\* millions: floating leg minus fixed leg for a payer, to first order in the
\* rates (each floating coupon is the index rate, the forward integral over
\* the period quoted in the index's day counter, accrued in the leg's day
\* counter, plus the spread; cash flows are not discounted).
Amount(v) ==
  LET i == v.npvOf
      floating == Rescale(ForwardIntegral(i.floatingLegIborIndex.curve,
                                          i.floatingLegSchedule[1],
                                          i.floatingLegSchedule[Len(i.floatingLegSchedule)]),
                          Basis(i.floatingLegIborIndex.dayCounter),
                          Basis(i.floatingLegDayCount))
                  + AccrualSum(i.floatingLegSchedule, i.floatingLegSpread,
                               i.floatingLegDayCount)
      fixed    == AccrualSum(i.fixedLegSchedule, i.fixedLegRate, i.fixedLegDayCount)
      sign     == IF i.swapType = "Payer" THEN 1 ELSE -1
  IN  sign * (i.nominal \div 1000000) * (floating - fixed)

\* the solver's and the claim's tolerance: 1e-6 of the nominal, which is 10
\* tenths of a currency unit for a nominal of one million
WithinTolerance(v) == Abs(Amount(v)) <= 10 * (v.npvOf.nominal \div 1000000)

\* '{0:.5f}'.format(pv): sign, whole part and five decimals
Format5(v) ==
  LET a == Amount(v)
  IN  [negative |-> a < 0, whole |-> Abs(a) \div 10, decimals |-> (Abs(a) % 10) * 10000]

\* ---------------------------------------------------- ObjectiveFunction

\* np.diff(v)
Diff(v) == [i \in 1..(IF Len(v) = 0 THEN 0 ELSE Len(v) - 1) |-> v[i + 1] - v[i]]

\* np.power(v, 2)
Power2(v) == [i \in DOMAIN v |-> v[i] * v[i]]

\* v * c, elementwise
Times(v, c) == [i \in DOMAIN v |-> v[i] * c]

\* np.sum(v)
Sum(v) == SumOver(v, 1, Len(v))

\* a variant of the objective's vector without the market rates
ObjectiveInputOfX(x, args) == x

\* ObjectiveFunction(x, args): args[1] is the market rates, args[2] the
\* scaling factor (Python's args[0] and args[1])
ObjectiveInput(x, args) == Concatenate(args[1], x)

ObjectiveFunction(x, args) ==
  Sum(Times(Power2(Diff(ObjectiveInput(x, args))), args[2]))

\* ------------------------------------------------------------ the script

\* the strings the script passes
Str_Payer == <<"P", "a", "y", "e", "r">>

Str_Annual == <<"A", "n", "n", "u", "a", "l">>

Str_Quarterly == <<"Q", "u", "a", "r", "t", "e", "r", "l", "y">>

Str_Target == <<"T", "a", "r", "g", "e", "t">>

Str_ModifiedFollowing == <<"M", "o", "d", "i", "f", "i", "e", "d", "F", "o", "l", "l", "o", "w", "i", "n", "g">>

Str_Backward == <<"B", "a", "c", "k", "w", "a", "r", "d">>

Str_Actual360 == <<"A", "c", "t", "u", "a", "l", "3", "6", "0">>

Str_USDLibor3M == <<"U", "S", "D", "L", "i", "b", "o", "r", ".", "3", "M">>

Str_startDate == <<"2", "0", "0", "8", "-", "0", "2", "-", "0", "6">>

swapIDs ==
  <<"2Y", "3Y", "4Y", "5Y", "6Y", "7Y", "8Y", "9Y", "10Y", "12Y", "15Y", "20Y", "25Y", "30Y">>

maturities ==
  << <<"2", "0", "1", "0", "-", "0", "2", "-", "0", "8">>,
     <<"2", "0", "1", "1", "-", "0", "2", "-", "0", "7">>,
     <<"2", "0", "1", "2", "-", "0", "2", "-", "0", "6">>,
     <<"2", "0", "1", "3", "-", "0", "2", "-", "0", "6">>,
     <<"2", "0", "1", "4", "-", "0", "2", "-", "0", "6">>,
     <<"2", "0", "1", "5", "-", "0", "2", "-", "0", "6">>,
     <<"2", "0", "1", "6", "-", "0", "2", "-", "0", "8">>,
     <<"2", "0", "1", "7", "-", "0", "2", "-", "0", "6">>,
     <<"2", "0", "1", "8", "-", "0", "2", "-", "0", "6">>,
     <<"2", "0", "2", "0", "-", "0", "2", "-", "0", "6">>,
     <<"2", "0", "2", "3", "-", "0", "2", "-", "0", "6">>,
     <<"2", "0", "2", "8", "-", "0", "2", "-", "0", "7">>,
     <<"2", "0", "3", "3", "-", "0", "2", "-", "0", "7">>,
     <<"2", "0", "3", "8", "-", "0", "2", "-", "0", "8">> >>

swapRates ==
  <<279500, 303500, 327500, 350500, 371500, 388500, 402500,
    415500, 426500, 443500, 461500, 475500, 480500, 481500>>

\* the arguments of the k-th VanillaSwap(...) of the list comprehension
SwapArguments(swapID, maturity, swapRate) ==
  [ ID                            |-> swapID,
    swapType                      |-> Str_Payer,
    nominal                       |-> 1000000,
    startDate                     |-> Str_startDate,
    maturityDate                  |-> maturity,
    fixedLegFrequency             |-> Str_Annual,
    fixedLegCalendar              |-> Str_Target,
    fixedLegConvention            |-> Str_ModifiedFollowing,
    fixedLegDateGenerationRule    |-> Str_Backward,
    fixedLegRate                  |-> swapRate,
    fixedLegDayCount              |-> Str_Actual360,
    fixedLegEndOfMonth            |-> FALSE,
    floatingLegFrequency          |-> Str_Quarterly,
    floatingLegCalendar           |-> Str_Target,
    floatingLegConvention         |-> Str_ModifiedFollowing,
    floatingLegDateGenerationRule |-> Str_Backward,
    floatingLegSpread             |-> 0,
    floatingLegDayCount           |-> Str_Actual360,
    floatingLegEndOfMonth         |-> FALSE,
    floatingLegIborIndex          |-> Str_USDLibor3M ]

initialMarketData == <<314500, 279275, 253077, 249374>>

\* a variant of the initial guess that is one rate short
ShortForwardGuesses == [i \in 1..116 |-> 200000]

\* np.full(117, 0.02)
initialForwardGuesses == [i \in 1..117 |-> 200000]

scalingFactor == 1000000

maxiter == 500

today == Date(4, 2, 2008)

\* ql.TARGET().advance(today, ql.Period(2, ql.Days))
settlementDate == AdvanceDays("TARGET", today, 2)

\* the requested end of the knot-date grid
gridEnd == Date(6, 2, 2038)

\* dates = list(ql.Schedule(settlementDate, ql.Date(6, 2, 2038), ...))
KnotDates ==
  Schedule(settlementDate, gridEnd, [n |-> 3, units |-> "Months"], "TARGET",
           "ModifiedFollowing", "ModifiedFollowing", "Backward", FALSE)

\* the swap objects of the list comprehension, as constructed
ConstructedSwap(k) ==
  VanillaSwapInit(SwapArguments(swapIDs[k], maturities[k], swapRates[k]))

\* a variant of the extraction that takes the initial guess for the solution
ForwardsOfGuess(result) == Concatenate(initialMarketData, initialForwardGuesses)

\* forwards = np.concatenate([initialMarketData, model.x])
Forwards(result) == Concatenate(initialMarketData, result.x)

\* a variant of the reporting curve with another day counter
FinalCurve365(ds, forwards) == ForwardCurve(ds, forwards, "Actual365Fixed", "TARGET")

\* curve = ql.YieldTermStructureHandle(ql.ForwardCurve(dates, forwards,
\*                                     ql.Actual360(), ql.TARGET()))
FinalCurve(ds, forwards) == ForwardCurve(ds, forwards, "Actual360", "TARGET")

\* index = ql.USDLibor(ql.Period(3, ql.Months), curve)
FinalIndex(curve) == IborIndex("USDLibor", [n |-> 3, units |-> "Months"], curve)

\* print(swap.ID, '{0:.5f}'.format(pv))
PrintedLine(swap, value) == <<swap.ID, Format5(value)>>

\* ------------------------------------------------------------ the solver
\* opt.minimize(..., method = 'SLSQP') is followed by what it does to the
\* program: it evaluates the objective and every constraint at its iterate,
\* moves to another iterate, and returns an OptimizeResult. The iterates are
\* drawn from a small family of vectors of the length of the initial guess.

MaxTracked == 2

\* the entry of the decision vector at each reference swap's maturity knot:
\* an iterate is flat between one maturity and the next
SegmentEnds == <<5, 9, 13, 17, 21, 25, 29, 33, 37, 45, 57, 77, 97, 117>>

SegmentOf(j) ==
  CHOOSE k \in DOMAIN SegmentEnds :
    /\ j <= SegmentEnds[k] \/ k = Len(SegmentEnds)
    /\ k = 1 \/ j > SegmentEnds[k - 1]

PiecewiseFlat(levels) ==
  [j \in DOMAIN initialForwardGuesses |-> levels[SegmentOf(j)]]

\* forward levels per maturity segment at which every reference swap is
\* within tolerance of zero
CalibratedLevels ==
  <<290877, 351832, 399830, 442311, 476616, 490596, 500044,
    519929, 525593, 528569, 533485, 517487, 500495, 486501>>

\* levels that leave the long swaps away from zero
RoughLevels ==
  <<290877, 351832, 399830, 442311, 476616, 490596, 500044,
    500000, 500000, 500000, 500000, 500000, 500000, 500000>>

SolverIterates ==
  {initialForwardGuesses}
    \cup {PiecewiseFlat(levels) : levels \in {CalibratedLevels, RoughLevels}}

\* the counts of iterations the model tells apart: the first MaxTracked and
\* the cap
NextCount(n) == IF n < MaxTracked THEN n + 1 ELSE maxiter

\* ------------------------------------------------------- the program state

VARIABLES
  pc,          \* the statement of the script that runs next
  swaps,       \* the list of VanillaSwap objects
  dates,       \* the knot dates of the curve
  x,           \* the solver's iterate
  nit,         \* the solver's iteration count
  evaluated,   \* the solver's latest evaluation: the point, the vector the
               \* objective works on and the constraints' values
  model,       \* the OptimizeResult
  forwards,    \* the calibrated forward rates
  curve,       \* the reporting curve
  pv,          \* the values of the final loop
  output,      \* the lines printed
  call,        \* the latest call made on an object under test
  firstReturn  \* what NPV_calibration returned the first time, per point

vars == <<pc, swaps, dates, x, nit, evaluated, model, forwards, curve, pv, output,
          call, firstReturn>>

NotEvaluated == [x |-> <<>>, objectiveInput |-> <<>>, constraints |-> <<>>]

NoCall == [op |-> "none"]

\* ----------------------------------------------------- the script's run

Init ==
  /\ pc = "swaps"
  /\ swaps = <<>>
  /\ dates = <<>>
  /\ x = initialForwardGuesses
  /\ nit = 0
  /\ evaluated = NotEvaluated
  /\ model = NoneObj
  /\ forwards = <<>>
  /\ curve = NoneObj
  /\ pv = <<>>
  /\ output = <<>>
  /\ call = NoCall
  /\ firstReturn = <<>>

\* swaps = [VanillaSwap(swapID, 'Payer', ...) for ... in zip(...)]: the next
\* element of the list comprehension
CreateSwap ==
  /\ pc = "swaps"
  /\ LET add(k, made) ==
           IF made.exc # ""
           THEN pc' = "raised" /\ swaps' = swaps
           ELSE /\ swaps' = Append(swaps, made.val)
                /\ pc' = IF k = Len(swapIDs) THEN "dates" ELSE "swaps"
     IN  add(Len(swaps) + 1, ConstructedSwap(Len(swaps) + 1))
  /\ UNCHANGED <<dates, x, nit, evaluated, model, forwards, curve, pv, output,
                 call, firstReturn>>

\* today, settlementDate, dates = list(ql.Schedule(...)) and the constraint
\* dictionaries, which hold the swaps' bound methods and [dates, prefix]
CreateDates ==
  /\ pc = "dates"
  /\ LET set(made) == IF made.exc # ""
                       THEN pc' = "raised" /\ dates' = dates
                       ELSE pc' = "minimize" /\ dates' = made.val
     IN  set(KnotDates)
  /\ UNCHANGED <<swaps, x, nit, evaluated, model, forwards, curve, pv, output,
                 call, firstReturn>>

\* the index of the first outcome that raised, 0 when none did
FirstRaised(outs) ==
  IF \E k \in DOMAIN outs : outs[k].exc # ""
  THEN CHOOSE k \in DOMAIN outs :
         outs[k].exc # "" /\ \A j \in 1..(k - 1) : outs[j].exc = ""
  ELSE 0

\* opt.minimize evaluates ObjectiveFunction(p, [initialMarketData,
\* scalingFactor]) and every constraint swap.NPV_calibration(p, [dates,
\* initialMarketData]) at a point p: its iterate, or a trial or perturbed
\* point next to it. An exception of a constraint leaves minimize and ends
\* the script.
Evaluate(p) ==
  /\ pc = "minimize"
  /\ LET all(outs, r) ==
         /\ swaps' = [k \in DOMAIN swaps |->
                        IF r = 0 \/ k <= r THEN outs[k].self ELSE swaps[k]]
         /\ evaluated' =
              [x |-> p,
               objectiveInput |-> ObjectiveInput(p, <<initialMarketData, scalingFactor>>),
               constraints |-> [k \in DOMAIN swaps |-> outs[k].ret]]
         /\ pc' = IF r = 0 THEN "minimize" ELSE "raised"
         each(outs) == all(outs, FirstRaised(outs))
     IN  each([k \in DOMAIN swaps |->
                 NPV_calibration(swaps[k], p, <<dates, initialMarketData>>)])
  /\ UNCHANGED <<dates, x, nit, model, forwards, curve, pv, output, call, firstReturn>>

\* one iteration of SLSQP: the iterate moves
SolverStep(p) ==
  /\ pc = "minimize"
  /\ evaluated # NotEvaluated
  /\ nit < maxiter
  /\ p # x
  /\ x' = p
  /\ nit' = NextCount(nit)
  /\ UNCHANGED <<pc, swaps, dates, evaluated, model, forwards, curve, pv, output,
                 call, firstReturn>>

\* minimize returns its OptimizeResult. Status 0 (success) is given only
\* for an iterate at which every constraint was found within tolerance;
\* status 9 is the iteration limit, status 8 a failed line search.
SolverReturn(status) ==
  /\ pc = "minimize"
  /\ evaluated # NotEvaluated
  /\ CASE status = 0 -> /\ evaluated.x = x
                        /\ \A k \in DOMAIN swaps : WithinTolerance(evaluated.constraints[k])
       [] status = 9 -> nit = maxiter
       [] status = 8 -> nit < maxiter
  /\ model' = [kind |-> "OptimizeResult", x |-> x, success |-> (status = 0),
               status |-> status, nit |-> nit]
  /\ pc' = "forwards"
  /\ UNCHANGED <<swaps, dates, x, nit, evaluated, forwards, curve, pv, output,
                 call, firstReturn>>

\* forwards = np.concatenate([initialMarketData, model.x]); the times and
\* the plot read dates and forwards and change nothing
ExtractForwards ==
  /\ pc = "forwards"
  /\ forwards' = Forwards(model)
  /\ pc' = "curve"
  /\ UNCHANGED <<swaps, dates, x, nit, evaluated, model, curve, pv, output,
                 call, firstReturn>>

\* curve = ql.YieldTermStructureHandle(ql.ForwardCurve(dates, forwards, ...))
CreateCurve ==
  /\ pc = "curve"
  /\ LET set(made) == IF made.exc # ""
                       THEN pc' = "raised" /\ curve' = curve
                       ELSE pc' = "report" /\ curve' = made.val
     IN  set(FinalCurve(dates, forwards))
  /\ UNCHANGED <<swaps, dates, x, nit, evaluated, model, forwards, pv, output,
                 call, firstReturn>>

\* one pass of the final loop: index, pv = swap.NPV(curve, index), print
PriceSwap ==
  /\ pc = "report"
  /\ LET print(k, out) ==
           /\ swaps' = [swaps EXCEPT ![k] = out.self]
           /\ IF out.exc # ""
              THEN pc' = "raised" /\ pv' = pv /\ output' = output
              ELSE /\ pv' = Append(pv, out.ret)
                   /\ output' = Append(output, PrintedLine(swaps[k], out.ret))
                   /\ pc' = IF k = Len(swaps) THEN "done" ELSE "report"
         value(k, index) == print(k, NPV(swaps[k], curve, index))
     IN  value(Len(pv) + 1, FinalIndex(curve))
  /\ UNCHANGED <<dates, x, nit, evaluated, model, forwards, curve, call, firstReturn>>

Next ==
  \/ CreateSwap
  \/ CreateDates
  \/ \E p \in SolverIterates : Evaluate(p)
  \/ \E p \in SolverIterates : SolverStep(p)
  \/ \E status \in {0, 8, 9} : SolverReturn(status)
  \/ ExtractForwards
  \/ CreateCurve
  \/ PriceSwap

Spec == Init /\ [][Next]_vars

\* ------------------------------------------------- properties of the run

\* C1 (round-trip pricing): once minimize has returned with success, every
\* value the final loop recomputes with VanillaSwap.NPV against the curve of
\* the market-rate prefix followed by model.x is within tolerance of zero.
RoundTripPricing ==
  (pc \in {"report", "done"} /\ model.success)
    => \A k \in DOMAIN pv : WithinTolerance(pv[k])

RoundTripPricingReached ==
  pc = "done" /\ model.success /\ Len(pv) = Len(swapIDs)

\* the lines the tail of the script prints for a result of minimize
ReportOf(result) ==
  LET lines(c) ==
        [k \in DOMAIN swaps |->
           PrintedLine(swaps[k], NPV(swaps[k], c.val, FinalIndex(c.val)).ret)]
  IN  lines(FinalCurve(dates, Forwards(result)))

\* C6 (non-convergence is reported): a run whose solver stopped at the
\* iteration cap or without satisfying the constraints prints something a
\* run that succeeded with the same vector does not print.
NonConvergenceReported ==
  (pc = "done" /\ ~model.success)
    => output # ReportOf([model EXCEPT !.success = TRUE, !.status = 0])

\* C7 (decision vector length): in every evaluation of the objective and of
\* the constraints, and in the final curve, there are as many knot dates as
\* market rates plus decision variables (121 = 4 + 117 in this run), and
\* each curve pairs every date with one rate.
DecisionVectorLength ==
  /\ dates # <<>> => Len(dates) = 4 + 117
  /\ evaluated # NotEvaluated =>
       /\ Len(dates) = Len(initialMarketData) + Len(evaluated.x)
       /\ Len(evaluated.objectiveInput) = Len(dates)
       /\ \A k \in DOMAIN evaluated.constraints :
            /\ evaluated.constraints[k].npvOf.engine.dates = dates
            /\ Len(evaluated.constraints[k].npvOf.engine.forwards) = Len(dates)
  /\ pc \in {"forwards", "curve", "report", "done"} =>
       Len(dates) = Len(initialMarketData) + Len(model.x)
  /\ curve # NoneObj =>
       /\ curve.dates = dates
       /\ Len(curve.forwards) = Len(curve.dates)

DecisionVectorLengthReached ==
  pc = "done" /\ evaluated # NotEvaluated /\ curve # NoneObj /\ Len(model.x) = 117

\* what the program's schedules are checked against
ScheduleInvariants(ds, start, end, cal) ==
  /\ StrictlyIncreasing(ds)
  /\ ds[1] = start
  /\ ds[Len(ds)] = end
  /\ \A i \in DOMAIN ds : IsBusinessDay(cal, ds[i])

\* C8 as stated (schedule invariants): each swap's two schedules and the
\* knot-date grid are strictly increasing, start at the requested start, end
\* at the requested end and hold business days only.
SchedulesEndAsRequested ==
  /\ \A k \in DOMAIN swaps :
       /\ ScheduleInvariants(swaps[k].fixedLegSchedule, swaps[k].startDate,
                             swaps[k].maturityDate, swaps[k].fixedLegCalendar)
       /\ ScheduleInvariants(swaps[k].floatingLegSchedule, swaps[k].startDate,
                             swaps[k].maturityDate, swaps[k].floatingLegCalendar)
  /\ dates # <<>> => ScheduleInvariants(dates, settlementDate, gridEnd, "TARGET")

\* C8 (schedule invariants, amended): each swap's two schedules and the
\* knot-date grid are strictly increasing, start at the requested start, hold
\* business days only, and end at the requested end rolled to a business
\* day by the termination date convention: the requested maturity for every
\* swap, and 2038-02-08 for the grid, whose requested end is a Saturday.
SchedulesEndOnAdjustedEnd ==
  /\ \A k \in DOMAIN swaps :
       /\ ScheduleInvariants(swaps[k].fixedLegSchedule, swaps[k].startDate,
                             swaps[k].maturityDate, swaps[k].fixedLegCalendar)
       /\ ScheduleInvariants(swaps[k].floatingLegSchedule, swaps[k].startDate,
                             swaps[k].maturityDate, swaps[k].floatingLegCalendar)
  /\ dates # <<>> =>
       /\ ScheduleInvariants(dates, settlementDate,
                             Adjust("TARGET", gridEnd, "ModifiedFollowing"), "TARGET")
       /\ dates[Len(dates)] = Date(8, 2, 2038)

SchedulesGenerated ==
  Len(swaps) = Len(swapIDs) /\ dates # <<>> /\ dates[Len(dates)] # gridEnd

Str_Euribor3M == <<"E", "u", "r", "i", "b", "o", "r", ".", "3", "M">>

\* the rate vectors of the calls
CallVectors == {initialForwardGuesses, PiecewiseFlat(CalibratedLevels)}

\* the index families a caller passes to NPV
CallFamilies == {"USDLibor", "GBPLibor"}

\* the script's first swap, built on the given index name
SwapOnIndex(name) ==
  VanillaSwapInit([SwapArguments(swapIDs[1], maturities[1], swapRates[1])
                     EXCEPT !.floatingLegIborIndex = name])

InitSwap ==
  /\ pc = "calls"
  /\ \E name \in {Str_USDLibor3M, Str_Euribor3M} : swaps = <<SwapOnIndex(name).val>>
  /\ dates = KnotDates.val
  /\ x = initialForwardGuesses
  /\ nit = 0
  /\ evaluated = NotEvaluated
  /\ model = NoneObj
  /\ forwards = <<>>
  /\ curve = NoneObj
  /\ pv = <<>>
  /\ output = <<>>
  /\ call = NoCall
  /\ firstReturn = <<>>

\* the record of a call: the method, the rate vector, the object before and
\* after, the exception and the value returned
Called(op, p, before, out) ==
  [op |-> op, x |-> p, before |-> before, after |-> out.self, exc |-> out.exc,
   ret |-> out.ret]

\* swap.NPV_calibration(p, [dates, initialMarketData])
CallNPVCalibration(p) ==
  /\ pc = "calls"
  /\ LET done(out) ==
           /\ swaps' = <<out.self>>
           /\ call' = Called("NPV_calibration", p, swaps[1], out)
           /\ firstReturn' =
                IF p \in DOMAIN firstReturn THEN firstReturn
                ELSE [q \in DOMAIN firstReturn \cup {p} |->
                        IF q = p THEN out.ret ELSE firstReturn[q]]
     IN  done(NPV_calibration(swaps[1], p, <<dates, initialMarketData>>))
  /\ UNCHANGED <<pc, dates, x, nit, evaluated, model, forwards, curve, pv, output>>

\* swap.NPV(curve, index) for the curve of the market rates followed by p
\* and an index of the given family linked to it
CallNPV(p, family) ==
  /\ pc = "calls"
  /\ LET done(out) ==
           /\ swaps' = <<out.self>>
           /\ call' = Called("NPV", p, swaps[1], out)
         on(c) == done(NPV(swaps[1], c, IborIndex(family, [n |-> 3, units |-> "Months"], c)))
     IN  on(FinalCurve(dates, Concatenate(initialMarketData, p)).val)
  /\ UNCHANGED <<pc, dates, x, nit, evaluated, model, forwards, curve, pv, output,
                 firstReturn>>

NextSwap ==
  \/ \E p \in CallVectors : CallNPVCalibration(p)
  \/ \E p \in CallVectors, family \in CallFamilies : CallNPV(p, family)

SpecSwap == InitSwap /\ [][NextSwap]_vars

\* C2 (valuation has no side effect): after a call of NPV_calibration or of
\* NPV every attribute of the swap object, floatingLegIborIndex and
\* instrument included, is what it was before the call.
ValuationLeavesSwapUnchanged ==
  call.op \in {"NPV_calibration", "NPV"} => call.after = call.before

\* C3 (valuation is history-independent): whatever calls came before,
\* NPV_calibration with the same x and the same args returns the amount it
\* returned the first time it was called with them.
ValuationIsHistoryIndependent ==
  (call.op = "NPV_calibration" /\ call.exc = "")
    => Amount(call.ret) = Amount(firstReturn[call.x])

\* ------------------------------------------------- configuration names
\* Names handed to the conversions of Convert, and a swap built with one
\* name of its configuration replaced, followed by the first constraint
\* evaluation of the solver.

Conversions ==
  {"to_businessDayConvention", "to_calendar", "to_swapType", "to_frequency",
   "to_dateGenerationRule", "to_dayCounter", "to_iborIndex"}

\* Convert.<conversion>(name) as an outcome [exc, val]
ApplyConversion(conversion, name) ==
  CASE conversion = "to_businessDayConvention" -> Ok(to_businessDayConvention(name))
    [] conversion = "to_calendar"              -> Ok(to_calendar(name))
    [] conversion = "to_swapType"              -> Ok(to_swapType(name))
    [] conversion = "to_frequency"             -> Ok(to_frequency(name))
    [] conversion = "to_dateGenerationRule"    -> Ok(to_dateGenerationRule(name))
    [] conversion = "to_dayCounter"            -> Ok(to_dayCounter(name))
    [] conversion = "to_iborIndex"             -> to_iborIndex(name)

\* the names each conversion compares the upper-cased input with (for the
\* index: the family in front of the dot, which a tenor must follow)
RecognizedNames(conversion) ==
  CASE conversion = "to_businessDayConvention" ->
         {<<"F", "O", "L", "L", "O", "W", "I", "N", "G">>,
          <<"M", "O", "D", "I", "F", "I", "E", "D", "F", "O", "L", "L", "O", "W", "I", "N", "G">>,
          <<"P", "R", "E", "C", "E", "D", "I", "N", "G">>,
          <<"M", "O", "D", "I", "F", "I", "E", "D", "P", "R", "E", "C", "E", "D", "I", "N", "G">>,
          <<"U", "N", "A", "D", "J", "U", "S", "T", "E", "D">>}
    [] conversion = "to_calendar" ->
         {<<"T", "A", "R", "G", "E", "T">>,
          <<"U", "N", "I", "T", "E", "D", "S", "T", "A", "T", "E", "S">>,
          <<"U", "N", "I", "T", "E", "D", "K", "I", "N", "G", "D", "O", "M">>}
    [] conversion = "to_swapType" ->
         {<<"P", "A", "Y", "E", "R">>, <<"R", "E", "C", "E", "I", "V", "E", "R">>}
    [] conversion = "to_frequency" ->
         {<<"D", "A", "I", "L", "Y">>, <<"W", "E", "E", "K", "L", "Y">>,
          <<"M", "O", "N", "T", "H", "L", "Y">>,
          <<"Q", "U", "A", "R", "T", "E", "R", "L", "Y">>,
          <<"S", "E", "M", "I", "A", "N", "N", "U", "A", "L">>,
          <<"A", "N", "N", "U", "A", "L">>}
    [] conversion = "to_dateGenerationRule" ->
         {<<"B", "A", "C", "K", "W", "A", "R", "D">>, <<"F", "O", "R", "W", "A", "R", "D">>}
    [] conversion = "to_dayCounter" ->
         {<<"A", "C", "T", "U", "A", "L", "3", "6", "0">>,
          <<"A", "C", "T", "U", "A", "L", "3", "6", "5", "F", "I", "X", "E", "D">>,
          <<"A", "C", "T", "U", "A", "L", "A", "C", "T", "U", "A", "L">>,
          <<"A", "C", "T", "U", "A", "L", "3", "6", "5", "N", "O", "L", "E", "A", "P">>,
          <<"B", "U", "S", "I", "N", "E", "S", "S", "2", "5", "2">>,
          <<"O", "N", "E", "D", "A", "Y", "C", "O", "U", "N", "T", "E", "R">>,
          <<"S", "I", "M", "P", "L", "E", "D", "A", "Y", "C", "O", "U", "N", "T", "E", "R">>,
          <<"T", "H", "I", "R", "T", "Y", "3", "6", "0">>}
    [] conversion = "to_iborIndex" ->
         {<<"U", "S", "D", "L", "I", "B", "O", "R">>, <<"E", "U", "R", "I", "B", "O", "R">>}

\* whether a name is one of a conversion's names, in any letter case
Recognized(conversion, name) ==
  IF conversion = "to_iborIndex"
  THEN /\ Len(Split(name, ".")) = 2
       /\ Upper(Split(name, ".")[1]) \in RecognizedNames(conversion)
       /\ PeriodOfString(Split(name, ".")[2]).exc = ""
  ELSE Upper(name) \in RecognizedNames(conversion)

\* the names tried: the script's own, some in another letter case, and names
\* no conversion knows
Str_TARGET == <<"T", "A", "R", "G", "E", "T">>

Str_payer == <<"p", "a", "y", "e", "r">>

Str_Foo == <<"F", "o", "o">>

Str_Tokyo == <<"T", "o", "k", "y", "o">>

Str_Actual365 == <<"A", "c", "t", "u", "a", "l", "3", "6", "5">>

Str_USDLibor == <<"U", "S", "D", "L", "i", "b", "o", "r">>

Str_Libor3M == <<"L", "i", "b", "o", "r", ".", "3", "M">>

ConfigNames ==
  {Str_Payer, Str_Annual, Str_Quarterly, Str_Target, Str_ModifiedFollowing,
   Str_Backward, Str_Actual360, Str_USDLibor3M, Str_Euribor3M, Str_TARGET,
   Str_payer, Str_Foo, Str_Tokyo, Str_Actual365, Str_USDLibor, Str_Libor3M, <<>>}

\* the constructor's arguments that name a configuration, each with the
\* conversion __init__ passes it to
ConfigFields ==
  [ swapType                      |-> "to_swapType",
    fixedLegFrequency             |-> "to_frequency",
    fixedLegCalendar              |-> "to_calendar",
    fixedLegConvention            |-> "to_businessDayConvention",
    fixedLegDateGenerationRule    |-> "to_dateGenerationRule",
    fixedLegDayCount              |-> "to_dayCounter",
    floatingLegFrequency          |-> "to_frequency",
    floatingLegCalendar           |-> "to_calendar",
    floatingLegConvention         |-> "to_businessDayConvention",
    floatingLegDateGenerationRule |-> "to_dateGenerationRule",
    floatingLegDayCount           |-> "to_dayCounter",
    floatingLegIborIndex          |-> "to_iborIndex" ]

InitConfig ==
  /\ pc = "config"
  /\ swaps = <<>>
  /\ dates = KnotDates.val
  /\ x = initialForwardGuesses
  /\ nit = 0
  /\ evaluated = NotEvaluated
  /\ model = NoneObj
  /\ forwards = <<>>
  /\ curve = NoneObj
  /\ pv = <<>>
  /\ output = <<>>
  /\ call = NoCall
  /\ firstReturn = <<>>

\* Convert.<conversion>(name)
CallConversion(conversion, name) ==
  /\ pc = "config"
  /\ LET done(out) ==
           call' = [op |-> conversion, name |-> name, exc |-> out.exc, val |-> out.val]
     IN  done(ApplyConversion(conversion, name))
  /\ UNCHANGED <<pc, swaps, dates, x, nit, evaluated, model, forwards, curve, pv,
                 output, firstReturn>>

\* VanillaSwap('2Y', ...) as the script builds it, with one configuration
\* name replaced
ConstructSwap(field, name) ==
  /\ pc = "config"
  /\ LET done(made) ==
           /\ call' = [op |-> "VanillaSwap", field |-> field, name |-> name,
                       exc |-> made.exc]
           /\ IF made.exc # ""
              THEN pc' = "raised" /\ swaps' = swaps
              ELSE pc' = "minimize" /\ swaps' = <<made.val>>
     IN  done(VanillaSwapInit([SwapArguments(swapIDs[1], maturities[1], swapRates[1])
                                 EXCEPT ![field] = name]))
  /\ UNCHANGED <<dates, x, nit, evaluated, model, forwards, curve, pv, output,
                 firstReturn>>

\* the first evaluation of the swap's constraint by opt.minimize
FirstEvaluation ==
  /\ pc = "minimize"
  /\ evaluated = NotEvaluated
  /\ LET done(out) ==
           /\ call' = [op |-> "NPV_calibration", field |-> call.field,
                       name |-> call.name, exc |-> out.exc]
           /\ swaps' = <<out.self>>
           /\ evaluated' = [x |-> x, objectiveInput |-> <<>>, constraints |-> <<out.ret>>]
           /\ pc' = IF out.exc # "" THEN "raised" ELSE "minimize"
     IN  done(NPV_calibration(swaps[1], x, <<dates, initialMarketData>>))
  /\ UNCHANGED <<dates, x, nit, model, forwards, curve, pv, output, firstReturn>>

NextConfig ==
  \/ \E conversion \in Conversions, name \in ConfigNames : CallConversion(conversion, name)
  \/ \E field \in DOMAIN ConfigFields, name \in ConfigNames : ConstructSwap(field, name)
  \/ FirstEvaluation

SpecConfig == InitConfig /\ [][NextConfig]_vars

\* C4 (unrecognized names fail): every conversion given a name that is not
\* one of its names fails with a ConfigurationError and returns nothing.
UnrecognizedNameFails ==
  (call.op \in Conversions /\ ~Recognized(call.op, call.name))
    => call.exc = "ConfigurationError"

\* C5 (fail fast): a swap built with a name its conversion does not know
\* raises while __init__ runs, and no such swap reaches the solver to raise
\* in its first constraint evaluation.
ConfigurationFailsInInit ==
  /\ (call.op = "VanillaSwap" /\ ~Recognized(ConfigFields[call.field], call.name))
       => call.exc # ""
  /\ (call.op = "NPV_calibration" /\ ~Recognized(ConfigFields[call.field], call.name))
       => call.exc = ""

\* -------------------------------------------------- the objective alone
\* ObjectiveFunction called on short vectors of small rates with a small
\* scaling factor; the arrays of the call are kept in x and forwards.

MaxLen == 2

MaxRate == 3

MaxScale == 2

RECURSIVE Vectors(_)
Vectors(n) ==
  IF n = 0 THEN {<<>>}
  ELSE Vectors(n - 1) \cup {Append(v, r) : v \in Vectors(n - 1), r \in 0..MaxRate}

InitObjective ==
  /\ pc = "objective"
  /\ swaps = <<>>
  /\ dates = <<>>
  /\ x \in Vectors(MaxLen)
  /\ nit = 0
  /\ evaluated = NotEvaluated
  /\ model = NoneObj
  /\ forwards \in Vectors(MaxLen)
  /\ curve = NoneObj
  /\ pv = <<>>
  /\ output = <<>>
  /\ call = NoCall
  /\ firstReturn = <<>>

\* ObjectiveFunction(x, [forwards, scale]): the arrays are read, not written
CallObjective(scale) ==
  /\ pc = "objective"
  /\ call' = [op |-> "ObjectiveFunction", x |-> x, prefix |-> forwards,
              scale |-> scale, ret |-> ObjectiveFunction(x, <<forwards, scale>>)]
  /\ UNCHANGED <<pc, swaps, dates, x, nit, evaluated, model, forwards, curve, pv,
                 output, firstReturn>>

NextObjective == \E scale \in 1..MaxScale : CallObjective(scale)

SpecObjective == InitObjective /\ [][NextObjective]_vars

\* scale * sum of (f[i+1] - f[i])^2 over the adjacent pairs of f
ScaledSquaredSteps(f, scale) ==
  LET step == [i \in 1..(Len(f) - 1) |-> (f[i + 1] - f[i]) * (f[i + 1] - f[i])]
  IN  scale * SumOver(step, 1, Len(f) - 1)

\* C9 (the objective): ObjectiveFunction(x, [prefix, scale]) is scale times
\* the sum of the squared steps between every two neighbours of the prefix
\* followed by x, the pairs inside the prefix and the pair joining prefix
\* and x included, and the call leaves x and prefix as they were.
ObjectiveIsScaledSquaredSteps ==
  call.op = "ObjectiveFunction" =>
    /\ call.ret = ScaledSquaredSteps(call.prefix \o call.x, call.scale)
    /\ call.x = x
    /\ call.prefix = forwards

ObjectiveCalledAcrossJoin ==
  /\ call.op = "ObjectiveFunction"
  /\ Len(call.prefix) = 2 /\ Len(call.x) = 2
  /\ call.prefix[1] # call.prefix[2] /\ call.prefix[2] # call.x[1]
  /\ call.scale = 2
  /\ call.ret > 0

=============================================================================
